---------------------------- MODULE Spec2Model ----------------------------
(***************************************************************************)
(* Water Buddy: the hydration accounting and adaptive-reminder engine of   *)
(* the Tkinter application (src/unnamed/part_000).                         *)
(*                                                                         *)
(* The three sqlite tables (profile, logs, badges) are sequences of rows   *)
(* in insertion order; a row's INTEGER PRIMARY KEY is its index.  The Tk   *)
(* event loop is single-threaded: every callback runs to completion, so    *)
(* every callback is one action.  Time is a UTC clock counted in ticks,    *)
(* TicksPerDay ticks to the calendar day; the local clock is the UTC clock *)
(* shifted by tz ticks.                                                    *)
(***************************************************************************)
EXTENDS Integers, Sequences, FiniteSets, TLC

VARIABLES
    profile,                \* table profile: rows name, age, weight_kg, activity, created_at
    logs,                   \* table logs: rows logged_at, amount_ml
    badges,                 \* table badges: rows name, earned_at
    now,                    \* the UTC clock, in ticks
    tz,                     \* local time minus UTC, in ticks
    boot,                   \* the clock and the table sizes when the window was constructed
    reminder_enabled,       \* WaterBuddyApp.reminder_enabled
    reminder_interval_min,  \* WaterBuddyApp.reminder_interval_min
    reminder_job,           \* WaterBuddyApp.reminder_job: None or the id Tk's after() returned
    timers,                 \* Tk's pending after() events, all with callback show_reminder
    popups,                 \* the reminder popups on screen, oldest first
    dialog,                 \* the messagebox the latest callback raised, None if it raised none
    phase,                  \* history: which of start/stop/snooze-after-stop was called last
    fired,                  \* history: show_reminder has run since the last start
    goal_call,              \* the latest direct call of calculate_goal_ml: arguments and result
    saved,                  \* history: the arguments of the latest set_profile call, None if none
    dlgs                    \* the ProfileDialog of every open_profile_dialog call that is in
                            \* wait_window, outermost call first: on screen or destroyed, and
                            \* its result

store == <<profile, logs, badges>>
env   == <<now, tz, boot>>
sched == <<reminder_enabled, reminder_interval_min, reminder_job, timers>>
hist  == <<phase, fired>>
vars  == <<profile, logs, badges, now, tz, boot, reminder_enabled,
           reminder_interval_min, reminder_job, timers, popups, dialog, phase, fired,
           goal_call, saved, dlgs>>

(***************************************************************************)
(* Bounds of the model.                                                    *)
(***************************************************************************)
TicksPerDay  == 2    \* clock resolution
MaxTicks     == 3    \* SpecStore: ticks the clock advances in a session
MaxWrites    == 2    \* SpecStore: rows a session appends to logs and profile together
MaxPopups    == 1    \* reminder popups on screen at once
ChainPopups  == 2    \* SpecChain: reminder popups on screen at once
AppTicks     == 1    \* Spec: ticks the clock advances in a session
AppWrites    == 1    \* Spec: rows a session appends to logs and profile together
MaxDays      == 8    \* the longest window get_totals_for_days is asked for
MaxWeight    == 250  \* SpecGoal: the heaviest weight calculate_goal_ml is called with

TzOffsets    == {-1, 0, 1}   \* local time minus UTC, in ticks

(***************************************************************************)
(* Program constants.                                                      *)
(***************************************************************************)
BASE_ML_PER_KG      == 35
StreakDays          == 7
RecentDays          == 3
SeniorAge           == 65
DefaultGoal         == 2000
DefaultIntervalMin  == 60
SnoozeMinutes       == 10
PopupLogMl          == 250
QuickAmounts        == {50, 100, 250, 500}

None == <<>>

Min(a, b) == IF a < b THEN a ELSE b

(***************************************************************************)
(* Text typed into Entry widgets.  int() and float() succeed on the        *)
(* numerals and raise ValueError on anything else; a successful parse is   *)
(* <<value>>, a ValueError is <<>>.  Weights are typed as whole kilograms. *)
(***************************************************************************)
Numerals ==
    ("-5" :> -5) @@ ("0" :> 0) @@ ("1" :> 1) @@ ("2" :> 2) @@ ("3" :> 3)
    @@ ("30" :> 30) @@ (" 30 " :> 30) @@ ("60" :> 60) @@ ("70" :> 70)
    @@ ("580" :> 580) @@ ("600" :> 600) @@ ("2000" :> 2000)

strip(s) == IF s = " " THEN "" ELSE IF s = " 30 " THEN "30" ELSE s

int(s) == IF s \in DOMAIN Numerals THEN <<Numerals[s]>> ELSE <<>>

float(s) == IF s \in DOMAIN Numerals THEN <<Numerals[s]>> ELSE <<>>

lower(s) == IF s = "HIGH" THEN "high" ELSE s

(***************************************************************************)
(* Timestamps.  datetime.isoformat() writes the date, then the time of     *)
(* day; sqlite compares the TEXT columns left to right, so that a          *)
(* timestamp is the pair <<date, tick of the day>> under the lexicographic *)
(* order.  utcnow() reads the UTC clock, date.today() the local one.       *)
(***************************************************************************)
isoformat(t) == <<t \div TicksPerDay, t % TicksPerDay>>

TextLeq(a, b) == a[1] < b[1] \/ (a[1] = b[1] /\ a[2] <= b[2])

date_today(t, z) == (t + z) \div TicksPerDay

day_min(d) == <<d, 0>>                    \* datetime.combine(d, datetime.min.time()).isoformat()
\* Faulty variant: the day is closed by the next midnight instead of its last instant.
day_next_min(d) == <<d + 1, 0>>

day_max(d) == <<d, TicksPerDay - 1>>      \* datetime.combine(d, datetime.max.time()).isoformat()

(***************************************************************************)
(* Data helpers.                                                           *)
(***************************************************************************)
\* Faulty variant: ORDER BY id ASC, the oldest row.
get_profile_oldest(P) ==
    IF Len(P) = 0 THEN None
    ELSE [id |-> 1, name |-> P[1].name, age |-> P[1].age,
          weight_kg |-> P[1].weight_kg, activity |-> P[1].activity,
          created_at |-> P[1].created_at]

get_profile(P) ==
    IF Len(P) = 0 THEN None
    ELSE [id |-> Len(P), name |-> P[Len(P)].name, age |-> P[Len(P)].age,
          weight_kg |-> P[Len(P)].weight_kg, activity |-> P[Len(P)].activity,
          created_at |-> P[Len(P)].created_at]

set_profile(P, name, age, weight_kg, activity, t) ==
    Append(P, [name |-> name, age |-> age, weight_kg |-> weight_kg,
               activity |-> activity, created_at |-> isoformat(t)])

RECURSIVE SumBetween(_, _, _)
\* SELECT SUM(amount_ml) FROM logs WHERE logged_at BETWEEN start AND end, NULL read as 0
SumBetween(L, start, end) ==
    IF L = <<>> THEN 0
    ELSE SumBetween(Tail(L), start, end)
         + (IF TextLeq(start, Head(L).logged_at) /\ TextLeq(Head(L).logged_at, end)
            THEN Head(L).amount_ml ELSE 0)

\* Faulty variant: the loop runs from today backwards, so the newest day comes first.
get_totals_newest_first(L, days, t, z) ==
    [k \in 1..days |->
        LET d == date_today(t, z) - (k - 1)
        IN  [date |-> d, total_ml |-> SumBetween(L, day_min(d), day_max(d))]]

get_totals_for_days(L, days, t, z) ==
    [k \in 1..days |->
        LET d == date_today(t, z) - (days - k)
        IN  [date |-> d, total_ml |-> SumBetween(L, day_min(d), day_max(d))]]

get_today_total(L, t, z) ==
    SumBetween(L, day_min(date_today(t, z)), day_max(date_today(t, z)))

(***************************************************************************)
(* Business logic.  The multiplier is a product of hundredths, held in a   *)
(* double; int() truncates towards zero.  For whole weights in -759..759   *)
(* Python's int(base * multiplier) is the truncated exact product, except  *)
(* under the multiplier 0.95 * 1.10: that double lies just below 1.045,    *)
(* and for the weights 200, 400 and 440 (and their negatives) the product, *)
(* a whole number in exact arithmetic, is rounded to the double below it,  *)
(* so that int() gives one less in magnitude.                              *)
(***************************************************************************)
Trunc(n, d) == IF n >= 0 THEN n \div d ELSE -((-n) \div d)

\* Faulty variant: the multipliers of low and high activity are exchanged.
calculate_goal_low_high_swapped(weight_kg, age, activity, weather_temp_c) ==
    LET base == weight_kg * BASE_ML_PER_KG
        act  == IF activity = "low" THEN 120 ELSE IF activity = "high" THEN 95 ELSE 100
        old  == IF age # 0 /\ age >= SeniorAge THEN 90 ELSE 100
        hot  == IF weather_temp_c # None
                THEN (IF weather_temp_c[1] >= 30 THEN 125
                      ELSE IF weather_temp_c[1] >= 25 THEN 110 ELSE 100)
                ELSE 100
    IN  Trunc(base * ((act * old * hot) \div 250), 4000)

calculate_goal_ml(weight_kg, age, activity, weather_temp_c) ==
    LET base  == weight_kg * BASE_ML_PER_KG
        act   == IF activity = "low" THEN 95 ELSE IF activity = "high" THEN 120 ELSE 100
        old   == IF age # 0 /\ age >= SeniorAge THEN 90 ELSE 100
        hot   == IF weather_temp_c # None
                 THEN (IF weather_temp_c[1] >= 30 THEN 125
                       ELSE IF weather_temp_c[1] >= 25 THEN 110 ELSE 100)
                 ELSE 100
        exact == Trunc(base * ((act * old * hot) \div 250), 4000)
        below == /\ act = 95 /\ old = 100 /\ hot = 110
                 /\ weight_kg \in {-440, -400, -200, 200, 400, 440}
    IN  IF below THEN (IF exact > 0 THEN exact - 1 ELSE exact + 1) ELSE exact

profile_goal(p) == calculate_goal_ml(p.weight_kg, p.age, p.activity, None)

RECURSIVE SumTotals(_)
SumTotals(ts) == IF ts = <<>> THEN 0 ELSE Head(ts).total_ml + SumTotals(Tail(ts))

\* The adjustment in hundredths: 120, 105 or 100 for 1.2, 1.05 or 1.0.
predictor_adjustment(P, L, t, z) ==
    LET totals == get_totals_for_days(L, StreakDays, t, z)
        recent == SubSeq(totals, Len(totals) - RecentDays + 1, Len(totals))
        sum    == SumTotals(recent)          \* avg = sum / 3
        p      == get_profile(P)
    IN  IF p = None THEN 100
        ELSE LET goal == profile_goal(p)
             IN  IF 10 * sum < 7 * RecentDays * goal THEN 120       \* avg < 0.7 * goal
                 ELSE IF 10 * sum < 9 * RecentDays * goal THEN 105  \* avg < 0.9 * goal
                 ELSE 100

HasBadge(B, name) == \E i \in 1..Len(B) : B[i].name = name

\* Faulty variant: inserts 'first-log' without asking whether it is already earned.
check_badges_first_log_again(P, L, B, t, z) ==
    LET totals == get_totals_for_days(L, StreakDays, t, z)
        p      == get_profile(P)
    IN  IF p = None THEN B
        ELSE LET goal      == profile_goal(p)
                 good_days == Cardinality({k \in 1..Len(totals) :
                                              4 * totals[k].total_ml >= 3 * goal})
                 B1 == IF good_days = StreakDays /\ ~HasBadge(B, "7-day-streak")
                       THEN Append(B, [name |-> "7-day-streak", earned_at |-> isoformat(t)])
                       ELSE B
             IN  IF Len(L) >= 1
                 THEN Append(B1, [name |-> "first-log", earned_at |-> isoformat(t)])
                 ELSE B1

\* Faulty variant: inserts '7-day-streak' without asking whether it is already earned.
check_badges_streak_again(P, L, B, t, z) ==
    LET totals == get_totals_for_days(L, StreakDays, t, z)
        p      == get_profile(P)
    IN  IF p = None THEN B
        ELSE LET goal      == profile_goal(p)
                 good_days == Cardinality({k \in 1..Len(totals) :
                                              4 * totals[k].total_ml >= 3 * goal})
                 B1 == IF good_days = StreakDays
                       THEN Append(B, [name |-> "7-day-streak", earned_at |-> isoformat(t)])
                       ELSE B
             IN  IF Len(L) >= 1 /\ ~HasBadge(B1, "first-log")
                 THEN Append(B1, [name |-> "first-log", earned_at |-> isoformat(t)])
                 ELSE B1

\* Faulty variant: six good days of the seven are enough for '7-day-streak'.
check_badges_six_days(P, L, B, t, z) ==
    LET totals == get_totals_for_days(L, StreakDays, t, z)
        p      == get_profile(P)
    IN  IF p = None THEN B
        ELSE LET goal      == profile_goal(p)
                 good_days == Cardinality({k \in 1..Len(totals) :
                                              4 * totals[k].total_ml >= 3 * goal})
                 B1 == IF good_days >= StreakDays - 1 /\ ~HasBadge(B, "7-day-streak")
                       THEN Append(B, [name |-> "7-day-streak", earned_at |-> isoformat(t)])
                       ELSE B
             IN  IF Len(L) >= 1 /\ ~HasBadge(B1, "first-log")
                 THEN Append(B1, [name |-> "first-log", earned_at |-> isoformat(t)])
                 ELSE B1

\* Faulty variant: 'first-log' is held only while the log has a single row, and is
\* deleted by the evaluation after a later one.
check_badges_first_log_revoked(P, L, B, t, z) ==
    LET totals == get_totals_for_days(L, StreakDays, t, z)
        p      == get_profile(P)
    IN  IF p = None THEN B
        ELSE LET goal      == profile_goal(p)
                 good_days == Cardinality({k \in 1..Len(totals) :
                                              4 * totals[k].total_ml >= 3 * goal})
                 B1 == IF good_days = StreakDays /\ ~HasBadge(B, "7-day-streak")
                       THEN Append(B, [name |-> "7-day-streak", earned_at |-> isoformat(t)])
                       ELSE B
                 total_logs == Len(L)
             IN  IF total_logs = 1 /\ ~HasBadge(B1, "first-log")
                 THEN Append(B1, [name |-> "first-log", earned_at |-> isoformat(t)])
                 ELSE SelectSeq(B1, LAMBDA b : total_logs = 1 \/ b.name # "first-log")

check_badges_and_streaks(P, L, B, t, z) ==
    LET totals == get_totals_for_days(L, StreakDays, t, z)
        p      == get_profile(P)
    IN  IF p = None THEN B
        ELSE LET goal      == profile_goal(p)
                 \* t['total_ml'] >= 0.75 * goal
                 good_days == Cardinality({k \in 1..Len(totals) :
                                              4 * totals[k].total_ml >= 3 * goal})
                 B1 == IF good_days = StreakDays /\ ~HasBadge(B, "7-day-streak")
                       THEN Append(B, [name |-> "7-day-streak", earned_at |-> isoformat(t)])
                       ELSE B
                 total_logs == Len(L)
             IN  IF total_logs >= 1 /\ ~HasBadge(B1, "first-log")
                 THEN Append(B1, [name |-> "first-log", earned_at |-> isoformat(t)])
                 ELSE B1

\* Faulty variant: INSERT OR REPLACE under the newest id, which overwrites the last row.
insert_log_replace_last(L, amount_ml, t) ==
    IF L = <<>> THEN <<[logged_at |-> isoformat(t), amount_ml |-> amount_ml]>>
    ELSE [L EXCEPT ![Len(L)] = [logged_at |-> isoformat(t), amount_ml |-> amount_ml]]

insert_log(L, amount_ml, t) ==
    Append(L, [logged_at |-> isoformat(t), amount_ml |-> amount_ml])

\* Faulty variant: the row is inserted and the evaluator is not run.
log_water_ml_no_evaluator(amount_ml) ==
    /\ logs' = insert_log(logs, amount_ml, now)
    /\ badges' = badges

log_water_ml(amount_ml) ==
    /\ logs' = insert_log(logs, amount_ml, now)
    /\ badges' = check_badges_and_streaks(profile, logs', badges, now, tz)

(***************************************************************************)
(* Logging.  The four quick-log buttons pass their amount straight to      *)
(* log_and_refresh; the custom entry is parsed and checked first.          *)
(***************************************************************************)
CustomEntries == {"abc", "-5", "0", " 30 "}

BoxLogged        == <<"Logged", "Logged ml">>
BoxInvalidAmount == <<"Invalid", "Enter a positive integer for ml">>

log_and_refresh(ml) ==
    /\ log_water_ml(ml)
    /\ dialog' = BoxLogged

log_custom(val) ==
    LET amt == int(strip(val))
    IN  IF amt = <<>> \/ amt[1] <= 0
        THEN dialog' = BoxInvalidAmount /\ UNCHANGED <<logs, badges>>
        ELSE log_and_refresh(amt[1])

(***************************************************************************)
(* The profile dialog.  open_profile_dialog creates a ProfileDialog and    *)
(* waits in wait_window, which runs the event loop until that window is    *)
(* destroyed: the dialog takes no grab, so every other callback runs       *)
(* meanwhile, a further open_profile_dialog included, and a call returns   *)
(* from wait_window only after the calls started inside it have returned.  *)
(* on_save yields the dialog's result (None when the form is refused) and  *)
(* the error box it raised.                                                *)
(***************************************************************************)
ProfileForms ==
    { [name |-> "",    age |-> "30",  weight |-> "2",  activity |-> ""],
      [name |-> "Ann", age |-> "70",  weight |-> "3",  activity |-> "HIGH"],
      [name |-> "",    age |-> "30",  weight |-> "0",  activity |-> "normal"],
      [name |-> "",    age |-> "30",  weight |-> "-5", activity |-> "low"],
      [name |-> "",    age |-> "30",  weight |-> "70", activity |-> "extreme"],
      [name |-> "",    age |-> "abc", weight |-> "70", activity |-> "normal"] }

BoxInvalidNumber   == <<"Invalid", "Enter valid numeric age and weight.">>
BoxInvalidActivity == <<"Invalid", "Activity must be low, normal or high">>

on_save(form) ==
    LET name     == IF strip(form.name) = "" THEN "You" ELSE strip(form.name)
        age      == int(strip(form.age))
        weight   == float(strip(form.weight))
        activity == IF lower(strip(form.activity)) = "" THEN "normal"
                    ELSE lower(strip(form.activity))
    IN  IF age = <<>> \/ weight = <<>>
        THEN [result |-> None, box |-> BoxInvalidNumber]
        ELSE IF activity \notin {"low", "normal", "high"}
        THEN [result |-> None, box |-> BoxInvalidActivity]
        ELSE [result |-> <<name, age[1], weight[1], activity>>, box |-> None]

\* The rest of open_profile_dialog, run when its wait_window has returned with
\* dlg.result = result: the profile table it leaves.
open_profile_dialog(P, result, t) ==
    IF result # None
    THEN set_profile(P, result[1], result[2], result[3], result[4], t)
    ELSE P

\* The calls that return once the event loop is idle again: the innermost call
\* whose dialog is destroyed, then the call around it if its dialog is destroyed
\* too, and so on.  S is the history of set_profile's arguments.
RECURSIVE wait_window(_, _, _, _)
wait_window(D, P, S, t) ==
    IF D = <<>> \/ D[Len(D)].open
    THEN [dlgs |-> D, profile |-> P, saved |-> S]
    ELSE LET result == D[Len(D)].result
         IN  wait_window(SubSeq(D, 1, Len(D) - 1),
                         open_profile_dialog(P, result, t),
                         IF result # None THEN result ELSE S,
                         t)

\* Tk destroys the i-th dialog, whose result is result.
destroy(D, i, result) == [D EXCEPT ![i] = [open |-> FALSE, result |-> result]]

(***************************************************************************)
(* Tk timers.  after() returns a new id each time (after#0, after#1, ...)  *)
(* and Tk never returns an id twice; the model draws the least number that *)
(* no pending timer and no stored id carries, which is as fresh.  A timer  *)
(* is removed from the pending set when it fires or is cancelled;          *)
(* after_cancel of an id that is not pending changes nothing.              *)
(***************************************************************************)
after(T, held, ms) ==
    LET used == {tm.id : tm \in T} \cup {held}
        n    == CHOOSE k \in 1..(Cardinality(used) + 1) :
                    /\ <<"after", k>> \notin used
                    /\ \A j \in 1..(k - 1) : <<"after", j>> \in used
    IN  [id |-> <<"after", n>>, ms |-> ms]

after_cancel(T, id) == {tm \in T : tm.id # id}

(***************************************************************************)
(* Reminders.  schedule_next_reminder is called with the object's fields   *)
(* as they are at the call: after start_reminders has set them, or as      *)
(* show_reminder found them, with the fired timer no longer pending.       *)
(***************************************************************************)
IntervalEntries == {"abc", "0", "1", "60"}

BoxInvalidInterval == <<"Invalid", "Set interval in minutes (>=1)">>
BoxStarted         == <<"Reminders", "Reminders started">>
BoxStopped         == <<"Reminders", "Reminders stopped">>

\* Faulty variant: the interval is used as it is, without the predictor.
schedule_without_predictor(enabled, interval_min, job, T) ==
    IF ~enabled
    THEN /\ reminder_job' = job
         /\ timers' = T
    ELSE LET interval_ms == interval_min * 60 * 1000
             T1          == IF job # None THEN after_cancel(T, job) ELSE T
             tm          == after(T1, job, interval_ms)
         IN  /\ reminder_job' = tm.id
             /\ timers' = T1 \cup {tm}

\* Faulty variant: the new timer is armed and stored first and the stored id is
\* cancelled after, which cancels the new timer and leaves the old one.
schedule_arm_then_cancel(enabled, interval_min, job, T) ==
    IF ~enabled
    THEN /\ reminder_job' = job
         /\ timers' = T
    ELSE LET adj         == predictor_adjustment(profile, logs, now, tz)
             interval_ms == (interval_min * 60 * 1000 * 100) \div adj
             tm          == after(T, job, interval_ms)
         IN  /\ reminder_job' = tm.id
             /\ timers' = after_cancel(T \cup {tm}, tm.id)

schedule_next_reminder(enabled, interval_min, job, T) ==
    IF ~enabled
    THEN /\ reminder_job' = job
         /\ timers' = T
    ELSE LET adj         == predictor_adjustment(profile, logs, now, tz)
             interval_ms == (interval_min * 60 * 1000 * 100) \div adj
             T1          == IF job # None THEN after_cancel(T, job) ELSE T
             tm          == after(T1, job, interval_ms)
         IN  /\ reminder_job' = tm.id
             /\ timers' = T1 \cup {tm}

\* Faulty variant: the reminders are switched on before the text is parsed.
start_reminders_enable_first(text) ==
    LET mins == int(text)
    IN  /\ reminder_enabled' = TRUE
        /\ IF mins = <<>> \/ mins[1] < 1
           THEN /\ dialog' = BoxInvalidInterval
                /\ UNCHANGED <<reminder_interval_min, reminder_job, timers>>
           ELSE /\ reminder_interval_min' = mins[1]
                /\ schedule_next_reminder(TRUE, mins[1], reminder_job, timers)
                /\ dialog' = BoxStarted

start_reminders(text) ==
    LET mins == int(text)
    IN  IF mins = <<>> \/ mins[1] < 1
        THEN /\ dialog' = BoxInvalidInterval
             /\ UNCHANGED <<reminder_enabled, reminder_interval_min, reminder_job, timers>>
        ELSE /\ reminder_interval_min' = mins[1]
             /\ reminder_enabled' = TRUE
             /\ schedule_next_reminder(TRUE, mins[1], reminder_job, timers)
             /\ dialog' = BoxStarted

\* Faulty variant: forgets the pending timer instead of cancelling it.
stop_reminders_no_cancel ==
    /\ reminder_enabled' = FALSE
    /\ timers' = timers
    /\ reminder_job' = None
    /\ dialog' = BoxStopped

stop_reminders ==
    /\ reminder_enabled' = FALSE
    /\ IF reminder_job # None
       THEN /\ timers' = after_cancel(timers, reminder_job)
            /\ reminder_job' = None
       ELSE UNCHANGED <<timers, reminder_job>>
    /\ dialog' = BoxStopped

\* int(min(100, (today_total/goal)*100)): the quotient and the product are rounded to
\* doubles, and when today_total/goal is exactly 0.29, 0.57 or 0.58 the product falls
\* just below the whole number and int() drops to the one before.
reminder_pct(today_total, goal) ==
    IF goal > 0
    THEN LET k == (100 * today_total) \div goal
         IN  IF (100 * today_total) % goal = 0 /\ k \in {29, 57, 58}
             THEN k - 1
             ELSE Min(100, k)
    ELSE 0

reminder_msg(P, L, t, z) ==
    LET today_total == get_today_total(L, t, z)
        p           == get_profile(P)
        goal        == IF p # None THEN profile_goal(p) ELSE DefaultGoal
        pct         == reminder_pct(today_total, goal)
    IN  IF pct >= 100 THEN <<"You reached your goal! Great job!">>
        ELSE <<"Time to sip", pct>>

\* Faulty variant: the popup is built but schedule_next_reminder is not called.
show_reminder_no_rearm(tm) ==
    /\ popups' = Append(popups, [msg |-> reminder_msg(profile, logs, now, tz)])
    /\ reminder_job' = reminder_job
    /\ timers' = timers \ {tm}

\* The callback of the timer tm, which Tk has just taken off its pending set.
show_reminder(tm) ==
    /\ popups' = Append(popups, [msg |-> reminder_msg(profile, logs, now, tz)])
    /\ schedule_next_reminder(reminder_enabled, reminder_interval_min, reminder_job,
                              timers \ {tm})

\* Faulty variant: the snooze goes through the interval and the predictor, as
\* schedule_next_reminder does, instead of taking the minutes it is given.
snooze_by_interval(minutes) ==
    LET adj == predictor_adjustment(profile, logs, now, tz)
        T1  == IF reminder_job # None THEN after_cancel(timers, reminder_job) ELSE timers
        tm  == after(T1, reminder_job, (reminder_interval_min * 60 * 1000 * 100) \div adj)
    IN  /\ reminder_job' = tm.id
        /\ timers' = T1 \cup {tm}

\* Faulty variant: arms the snooze timer without cancelling the pending one.
snooze_no_cancel(minutes) ==
    LET tm == after(timers, reminder_job, minutes * 60 * 1000)
    IN  /\ reminder_job' = tm.id
        /\ timers' = timers \cup {tm}

snooze(minutes) ==
    LET T1 == IF reminder_job # None THEN after_cancel(timers, reminder_job) ELSE timers
        tm == after(T1, reminder_job, minutes * 60 * 1000)
    IN  /\ reminder_job' = tm.id
        /\ timers' = T1 \cup {tm}

popup_destroy(i) ==
    popups' = [k \in 1..(Len(popups) - 1) |-> IF k < i THEN popups[k] ELSE popups[k + 1]]

(***************************************************************************)
(* The database the application opens.  init_db keeps what earlier runs    *)
(* wrote, so a session starts from an empty database or from the store an  *)
(* earlier session left: Prior replays the engine's own writes, one 100 ml *)
(* log at the first tick of each of h consecutive UTC days.                *)
(***************************************************************************)
RECURSIVE Prior(_, _, _)
Prior(h, P0, z) ==
    IF h = 0 THEN [profile |-> P0, logs |-> <<>>, badges |-> <<>>]
    ELSE LET S == Prior(h - 1, P0, z)
             t == (h - 1) * TicksPerDay
             L == insert_log(S.logs, 100, t)
         IN  [profile |-> S.profile, logs |-> L,
              badges |-> check_badges_and_streaks(S.profile, L, S.badges, t, z)]

PriorDays == {0, StreakDays - 1}

Init ==
    \E z \in TzOffsets, h \in PriorDays, withProfile \in BOOLEAN :
        LET P0 == IF withProfile THEN set_profile(<<>>, "You", 30, 2, "normal", 0) ELSE <<>>
            S  == Prior(h, P0, z)
        IN  /\ h > 0 => withProfile
            /\ profile = S.profile
            /\ logs = S.logs
            /\ badges = S.badges
            /\ now = h * TicksPerDay
            /\ tz = z
            /\ boot = [now |-> now, logs |-> Len(logs), profile |-> Len(profile)]
            /\ reminder_enabled = FALSE
            /\ reminder_interval_min = DefaultIntervalMin
            /\ reminder_job = None
            /\ timers = {}
            /\ popups = <<>>
            /\ dialog = None
            /\ phase = "idle"
            /\ fired = FALSE
            /\ goal_call = None
            /\ saved = IF withProfile THEN <<"You", 30, 2, "normal">> ELSE None
            /\ dlgs = <<>>

(***************************************************************************)
(* The callbacks the event loop runs, and the passing of time.             *)
(***************************************************************************)
\* What a session has appended so far, together with the profile dialogs that
\* are waited for, each of which may still append a row, stays below the bound n.
WriteRoom(n)   ==
    (Len(logs) - boot.logs) + (Len(profile) - boot.profile) + Len(dlgs) < n

Tick(maxTicks) ==
    /\ now - boot.now < maxTicks
    /\ now' = now + 1
    /\ UNCHANGED <<store, tz, boot, sched, popups, dialog, hist, goal_call, saved, dlgs>>

\* Faulty variant: the quick-log button also re-arms the reminder timer.
QuickLogRearms(room) ==
    /\ room
    /\ \E amt \in QuickAmounts : log_and_refresh(amt)
    /\ schedule_next_reminder(reminder_enabled, reminder_interval_min, reminder_job, timers)
    /\ UNCHANGED <<profile, env, reminder_enabled, reminder_interval_min, popups, hist,
                   goal_call, saved, dlgs>>

QuickLog(room) ==
    /\ room
    /\ \E amt \in QuickAmounts : log_and_refresh(amt)
    /\ UNCHANGED <<profile, env, sched, popups, hist, goal_call, saved, dlgs>>

LogCustom(room) ==
    /\ room
    /\ \E val \in CustomEntries : log_custom(val)
    /\ UNCHANGED <<profile, env, sched, popups, hist, goal_call, saved, dlgs>>

\* The custom entry again, with the amount of a large bottle or of a whole day
\* typed into it.
BottleEntries == {"580", "600", "2000"}

LogBottle(room) ==
    /\ room
    /\ \E val \in BottleEntries : log_custom(val)
    /\ UNCHANGED <<profile, env, sched, popups, hist, goal_call, saved, dlgs>>

\* The button 'Edit Profile': open_profile_dialog up to its wait_window.
OpenProfileDialog(room) ==
    /\ room
    /\ dlgs' = Append(dlgs, [open |-> TRUE, result |-> None])
    /\ dialog' = None
    /\ UNCHANGED <<store, env, sched, popups, hist, goal_call, saved>>

\* The button 'Save' of a dialog on screen, and the calls that return after it.
DialogSave ==
    /\ \E i \in DOMAIN dlgs, form \in ProfileForms :
          LET dlg == on_save(form)
              D   == IF dlg.result # None THEN destroy(dlgs, i, dlg.result) ELSE dlgs
              R   == wait_window(D, profile, saved, now)
          IN  /\ dlgs[i].open
              /\ dlgs' = R.dlgs
              /\ profile' = R.profile
              /\ saved' = R.saved
              /\ dialog' = dlg.box
    /\ UNCHANGED <<logs, badges, env, sched, popups, hist, goal_call>>

\* The button 'Cancel' of a dialog on screen, and the calls that return after it.
DialogCancel ==
    /\ \E i \in DOMAIN dlgs :
          LET R == wait_window(destroy(dlgs, i, None), profile, saved, now)
          IN  /\ dlgs[i].open
              /\ dlgs' = R.dlgs
              /\ profile' = R.profile
              /\ saved' = R.saved
    /\ dialog' = None
    /\ UNCHANGED <<logs, badges, env, sched, popups, hist, goal_call>>

StartReminders ==
    /\ \E text \in IntervalEntries :
          /\ start_reminders(text)
          /\ IF dialog' = BoxStarted
             THEN phase' = "started" /\ fired' = FALSE
             ELSE UNCHANGED hist
    /\ UNCHANGED <<store, env, popups, goal_call, saved, dlgs>>

StopReminders ==
    /\ stop_reminders
    /\ phase' = "stopped"
    /\ UNCHANGED <<store, env, reminder_interval_min, popups, fired, goal_call, saved, dlgs>>

\* The code puts no limit on the popups: every fire adds one to those on screen,
\* whatever is there already.  The popups on screen stay below the bound n.
PopupRoom(n) == Len(popups) < n

\* Tk takes a due timer off its pending set and runs show_reminder.
TimerFires(room) ==
    /\ room
    /\ \E tm \in timers : show_reminder(tm)
    /\ dialog' = None
    /\ fired' = TRUE
    /\ UNCHANGED <<store, env, reminder_enabled, reminder_interval_min, phase, goal_call, saved, dlgs>>

PopupLog(room) ==
    /\ room
    /\ \E i \in 1..Len(popups) : popup_destroy(i)
    /\ log_water_ml(PopupLogMl)
    /\ dialog' = None
    /\ UNCHANGED <<profile, env, sched, hist, goal_call, saved, dlgs>>

PopupSnooze ==
    /\ \E i \in 1..Len(popups) : popup_destroy(i)
    /\ snooze(SnoozeMinutes)
    /\ dialog' = None
    /\ phase' = IF phase = "stopped" THEN "snoozed after stop" ELSE phase
    /\ UNCHANGED <<store, env, reminder_enabled, reminder_interval_min, fired, goal_call, saved, dlgs>>

PopupClose ==
    /\ \E i \in 1..Len(popups) : popup_destroy(i)
    /\ UNCHANGED <<store, env, sched, dialog, hist, goal_call, saved, dlgs>>

\* A direct call of the engine's log_water_ml, as a caller other than the window's
\* own callbacks makes it: the function takes any integer.
EngineAmounts == {-5, 0, 250}

LogWaterMl(room) ==
    /\ room
    /\ \E amount_ml \in EngineAmounts : log_water_ml(amount_ml)
    /\ UNCHANGED <<profile, env, sched, popups, dialog, hist, goal_call, saved, dlgs>>

\* A direct call of calculate_goal_ml, one in a behaviour.
GoalWeights    == (-5)..MaxWeight
GoalAges       == {0, 30, 64, 65, 70}
GoalActivities == {"low", "normal", "high"}
GoalTemps      == {None, <<24>>, <<25>>, <<29>>, <<30>>}

CalculateGoal ==
    /\ goal_call = None
    /\ \E w \in GoalWeights, a \in GoalAges, act \in GoalActivities, temp \in GoalTemps :
          goal_call' = [weight_kg |-> w, age |-> a, activity |-> act, weather_temp_c |-> temp,
                        result |-> calculate_goal_ml(w, a, act, temp)]
    /\ UNCHANGED <<store, env, sched, popups, dialog, hist, saved, dlgs>>

NextStore ==
    \/ Tick(MaxTicks)
    \/ QuickLog(WriteRoom(MaxWrites))
    \/ LogCustom(WriteRoom(MaxWrites))
    \/ OpenProfileDialog(WriteRoom(MaxWrites))
    \/ DialogSave
    \/ DialogCancel

Next ==
    \/ Tick(AppTicks)
    \/ QuickLog(WriteRoom(AppWrites))
    \/ LogCustom(WriteRoom(AppWrites))
    \/ OpenProfileDialog(WriteRoom(AppWrites))
    \/ DialogSave
    \/ DialogCancel
    \/ StartReminders
    \/ StopReminders
    \/ TimerFires(PopupRoom(MaxPopups))
    \/ PopupLog(WriteRoom(AppWrites))
    \/ PopupSnooze
    \/ PopupClose

\* The whole application, started on a database with no logs where local time is UTC.
InitApp == Init /\ logs = <<>> /\ tz = 0

Spec == InitApp /\ [][Next]_vars

\* The whole application in a later session, started on the database that earlier
\* sessions left, where local time is UTC.  Every callback is there; the clock
\* stays where it was when the window opened.
InitReturning == Init /\ logs # <<>> /\ tz = 0

NextReturning ==
    \/ QuickLog(WriteRoom(AppWrites))
    \/ LogCustom(WriteRoom(AppWrites))
    \/ OpenProfileDialog(WriteRoom(AppWrites))
    \/ DialogSave
    \/ DialogCancel
    \/ StartReminders
    \/ StopReminders
    \/ TimerFires(PopupRoom(MaxPopups))
    \/ PopupLog(WriteRoom(AppWrites))
    \/ PopupSnooze
    \/ PopupClose

SpecReturning == InitReturning /\ [][NextReturning]_vars

\* The log and the clock alone, which are all the aggregator reads: the databases
\* of Init with the profile they were written under, and no profile saved since.
NextTotals ==
    \/ Tick(MaxTicks)
    \/ QuickLog(WriteRoom(MaxWrites))
    \/ LogCustom(WriteRoom(MaxWrites))

SpecTotals == Init /\ [][NextTotals]_vars

\* The store and the clock alone, started on any of the databases of Init.
SpecStore == Init /\ [][NextStore]_vars

\* The reminder chain under a fair event loop.  Tk runs the callback of a pending
\* timer once its delay has passed, whatever is on screen, so a pending timer
\* eventually fires; nothing is assumed of what the user clicks.  A timer fires
\* beside the popups that are on screen until there are ChainPopups of them.
NextChain ==
    \/ Tick(AppTicks)
    \/ StartReminders
    \/ StopReminders
    \/ TimerFires(PopupRoom(ChainPopups))
    \/ PopupLog(WriteRoom(AppWrites))
    \/ PopupSnooze
    \/ PopupClose

\* The fire step of the chain.
Fire == TimerFires(PopupRoom(ChainPopups))

SpecChain == InitApp /\ [][NextChain]_vars /\ WF_vars(Fire)

\* The engine's log operation alone, called on any of the databases of Init.
NextEngine ==
    \/ Tick(MaxTicks)
    \/ LogWaterMl(WriteRoom(MaxWrites))

SpecEngine == Init /\ [][NextEngine]_vars

\* The goal calculator alone, called with every combination of its arguments.
NextGoal == CalculateGoal

InitGoal == InitApp /\ profile = <<>>

SpecGoal == InitGoal /\ [][NextGoal]_vars

\* The whole application where the amounts typed into the custom entry are those
\* of BottleEntries; the clock stays where it was when the window opened.
NextMessage ==
    \/ LogBottle(WriteRoom(MaxWrites))
    \/ OpenProfileDialog(WriteRoom(MaxWrites))
    \/ DialogSave
    \/ DialogCancel
    \/ StartReminders
    \/ StopReminders
    \/ TimerFires(PopupRoom(MaxPopups))
    \/ PopupLog(WriteRoom(MaxWrites))
    \/ PopupSnooze
    \/ PopupClose

SpecMessage == InitApp /\ [][NextMessage]_vars

(***************************************************************************)
(* Properties.                                                             *)
(***************************************************************************)
\* show_reminder runs in this step: it alone puts a popup on screen.
ShowReminderRuns == Len(popups') = Len(popups) + 1

\* log_water_ml runs in this step: it alone appends to logs.
LogWritten == Len(logs') = Len(logs) + 1

Count(B, name) == Cardinality({i \in 1..Len(B) : B[i].name = name})

BadgeNames == {"first-log", "7-day-streak"}

\* C1: once stop_reminders has been called and start_reminders has not been called
\* since, show_reminder never runs, a snooze clicked on a popup left open included.
C1_NoReminderAfterStop ==
    [][(phase \in {"stopped", "snoozed after stop"}) => (~ShowReminderRuns)]_vars

\* C2: at most one reminder timer is pending in every reachable state.
C2_SinglePendingTimer == Cardinality(timers) <= 1

\* C2 witness: reminders are on and the pending timer is the one a snooze armed in
\* place of the timer the fire before it had re-armed.
C2_Witness ==
    /\ reminder_enabled
    /\ fired
    /\ \E tm \in timers : tm.ms = SnoozeMinutes * 60 * 1000 /\ tm.id = reminder_job

\* C3: every badge name occurs at most once in the badges table.
C3_BadgeUnique == \A name \in BadgeNames : Count(badges, name) <= 1

\* C3 witness: both badges are earned and the session has logged twice since it started.
C3_Witness ==
    /\ \A name \in BadgeNames : Count(badges, name) = 1
    /\ Len(logs) - boot.logs = 2

\* C4: running the evaluator a second time, with no write in between, leaves the
\* badges as the first run left them.
C4_EvaluatorIdempotent ==
    LET B1 == check_badges_and_streaks(profile, logs, badges, now, tz)
    IN  check_badges_and_streaks(profile, logs, B1, now, tz) = B1

\* C4 witness: a store on which the first run does insert both badges.
C4_Witness ==
    LET B1 == check_badges_and_streaks(profile, logs, badges, now, tz)
    IN  Len(B1) = Len(badges) + 2

\* C5: after every log_water_ml the badges contain 'first-log', with or without a
\* current profile.
C5_FirstLogAfterEveryLog ==
    [][LogWritten => HasBadge(badges', "first-log")]_vars

\* The condition of the '7-day-streak' rule on the store L, P at clock t, offset z.
StreakDue(P, L, t, z) ==
    /\ get_profile(P) # None
    /\ \A k \in 1..StreakDays :
          4 * get_totals_for_days(L, StreakDays, t, z)[k].total_ml
             >= 3 * profile_goal(get_profile(P))

\* C6: an evaluation inserts '7-day-streak' exactly when a current profile exists,
\* all 7 entries of get_totals_for_days(7) reach 0.75 of its goal and the badge is
\* not yet earned; once earned the badge stays, once.
C6_StreakRule ==
    [][/\ LogWritten =>
            /\ Count(badges', "7-day-streak") - Count(badges, "7-day-streak")
                  = IF StreakDue(profile', logs', now', tz') /\ ~HasBadge(badges, "7-day-streak")
                    THEN 1 ELSE 0
       /\ HasBadge(badges, "7-day-streak") => Count(badges', "7-day-streak") = 1]_vars

\* C6 witness: eight consecutive days each hold one log of 0.75 of the goal or more,
\* the eighth written after the badge was earned, and the badge is there.
C6_Witness ==
    /\ HasBadge(badges, "7-day-streak")
    /\ get_profile(profile) # None
    /\ Len(logs) = StreakDays + 1
    /\ \A i \in 1..Len(logs) :
          /\ logs[i].logged_at[1] = i - 1
          /\ 4 * logs[i].amount_ml >= 3 * profile_goal(get_profile(profile))
    /\ \E i \in 1..Len(badges) :
          /\ badges[i].name = "7-day-streak"
          /\ badges[i].earned_at[1] < logs[Len(logs)].logged_at[1]

\* C7: after log_water_ml(a), get_today_total is its value before the write plus a.
C7_TodayTotalFresh ==
    [][LogWritten =>
          get_today_total(logs', now', tz')
             = get_today_total(logs, now, tz) + logs'[Len(logs')].amount_ml]_vars

\* C8: a call of log_water_ml with amount_ml <= 0 leaves profile, logs and badges
\* as they were, and every stored event has amount_ml > 0.
C8_InvalidAmountRefused ==
    /\ [](\A i \in 1..Len(logs) : logs[i].amount_ml > 0)
    /\ [][\A amount_ml \in EngineAmounts :
             (amount_ml <= 0 /\ log_water_ml(amount_ml)) => UNCHANGED store]_vars

\* C9: the current profile has weight_kg > 0 and an activity of low, normal or high.
C9_ProfileValid ==
    get_profile(profile) # None =>
        /\ get_profile(profile).weight_kg > 0
        /\ get_profile(profile).activity \in {"low", "normal", "high"}

\* C10: after start_reminders and then stop_reminders, with no start and no snooze
\* since, show_reminder does not run.
C10_NoReminderAfterStartStop ==
    [][(phase = "stopped") => (~ShowReminderRuns)]_vars

\* C10 witness: stop_reminders was called after start_reminders with interval 60,
\* before the timer fired.
C10_Witness ==
    /\ phase = "stopped"
    /\ ~fired
    /\ reminder_interval_min = 60
    /\ dialog = BoxStopped

\* The logs of L stamped on the calendar day d.
EventsOn(L, d) == {i \in 1..Len(L) : L[i].logged_at[1] = d}

\* C11: for every n >= 1, get_totals_for_days(n) has exactly n entries, entry k for
\* the day n - k days before today, so that the days are consecutive, oldest first
\* and end today; the total of a day on which no event is stamped is 0.
C11_DailyTotalsShape ==
    \A n \in 1..MaxDays :
        LET totals == get_totals_for_days(logs, n, now, tz)
        IN  /\ DOMAIN totals = 1..n
            /\ \A k \in 1..n :
                  /\ totals[k].date = date_today(now, tz) - (n - k)
                  /\ EventsOn(logs, totals[k].date) = {} => totals[k].total_ml = 0

\* C11 witness: the session has logged, and the 7-day window holds a day with
\* events after a day without.
C11_Witness ==
    /\ Len(logs) > boot.logs
    /\ LET totals == get_totals_for_days(logs, StreakDays, now, tz)
       IN  \E j, k \in 1..StreakDays :
              /\ j < k
              /\ EventsOn(logs, totals[j].date) = {} /\ totals[j].total_ml = 0
              /\ EventsOn(logs, totals[k].date) # {} /\ totals[k].total_ml > 0

RECURSIVE SumAmounts(_, _)
\* The sum of amount_ml over the logs of L with index in S.
SumAmounts(L, S) ==
    IF S = {} THEN 0
    ELSE LET i == CHOOSE j \in S : TRUE
         IN  L[i].amount_ml + SumAmounts(L, S \ {i})

\* The logs of L stamped within the n calendar days that end today.
WindowEvents(L, n, t, z) ==
    {i \in 1..Len(L) :
        /\ date_today(t, z) - (n - 1) <= L[i].logged_at[1]
        /\ L[i].logged_at[1] <= date_today(t, z)}

\* The entries of totals whose day brackets the timestamp at.
Buckets(totals, at) ==
    {k \in DOMAIN totals :
        /\ TextLeq(day_min(totals[k].date), at)
        /\ TextLeq(at, day_max(totals[k].date))}

\* C12: for every n, the n totals of get_totals_for_days(n) add up to the sum of
\* amount_ml over the stored events stamped within the n-day window, and every such
\* event lies in exactly one day's bracket, every other event in none.
C12_Conservation ==
    \A n \in 1..MaxDays :
        LET totals == get_totals_for_days(logs, n, now, tz)
            window == WindowEvents(logs, n, now, tz)
        IN  /\ SumTotals(totals) = SumAmounts(logs, window)
            /\ \A i \in 1..Len(logs) :
                  Cardinality(Buckets(totals, logs[i].logged_at))
                     = IF i \in window THEN 1 ELSE 0

\* C12 witness: in a session that has logged, a window of two days or more holds an
\* event stamped at the first instant of a day and one at the last instant of a
\* day, and leaves an older event out.
C12_Witness ==
    /\ Len(logs) > boot.logs
    /\ \E n \in 2..MaxDays :
          LET window == WindowEvents(logs, n, now, tz)
          IN  /\ \E i \in window : logs[i].logged_at[2] = 0
              /\ \E i \in window : logs[i].logged_at[2] = TicksPerDay - 1
              /\ \E i \in 1..Len(logs) : i \notin window
              /\ SumTotals(get_totals_for_days(logs, n, now, tz)) > 0

\* The reference cadence factor, in hundredths: 1.0 without a profile; otherwise
\* from avg, the mean of the last 3 entries of get_totals_for_days(7), and the goal
\* of the current profile: 1.20 if avg < 0.70 * goal, 1.05 if avg < 0.90 * goal, else 1.0.
CadenceReference(P, L, t, z) ==
    IF get_profile(P) = None THEN 100
    ELSE LET totals == get_totals_for_days(L, 7, t, z)
             sum3   == totals[5].total_ml + totals[6].total_ml + totals[7].total_ml
             goal   == profile_goal(get_profile(P))
         IN  IF 100 * sum3 < 70 * 3 * goal THEN 120
             ELSE IF 100 * sum3 < 90 * 3 * goal THEN 105
             ELSE 100

\* C13: predictor_adjustment equals the reference factor on every store; it is
\* never below 1.0; and with a profile of nonzero goal and no event ever logged it
\* is 1.20.
C13_CadenceFactor ==
    LET adj == predictor_adjustment(profile, logs, now, tz)
    IN  /\ adj = CadenceReference(profile, logs, now, tz)
        /\ adj >= 100
        /\ (/\ get_profile(profile) # None
            /\ profile_goal(get_profile(profile)) # 0
            /\ logs = <<>>) => adj = 120

\* floor(weight_kg * 35 * m) in exact arithmetic, m the product of 0.95 for low or
\* 1.20 for high activity, 0.90 from age 65, and 1.25 from 30 degrees or 1.10 from
\* 25 degrees when a temperature is supplied.  The product of the three factors in
\* hundredths is a multiple of 250, which keeps the numbers small.
GoalReference(weight_kg, age, activity, temp) ==
    LET a == IF activity = "low" THEN 95 ELSE IF activity = "high" THEN 120 ELSE 100
        o == IF age >= 65 THEN 90 ELSE 100
        h == IF temp = None THEN 100
             ELSE IF temp[1] >= 30 THEN 125 ELSE IF temp[1] >= 25 THEN 110 ELSE 100
    IN  (weight_kg * 35 * ((a * o * h) \div 250)) \div 4000

\* C14: called with a positive weight, calculate_goal_ml returns
\* floor(weight_kg * 35 * m); (70, 30, normal) gives 2450, (70, 30, high) gives 2940
\* and (70, 70, low) gives 2094.
C14_GoalFormula ==
    (goal_call # None /\ goal_call.weight_kg > 0) =>
        /\ goal_call.result = GoalReference(goal_call.weight_kg, goal_call.age,
                                            goal_call.activity, goal_call.weather_temp_c)
        /\ (goal_call.weight_kg = 70 /\ goal_call.weather_temp_c = None) =>
              /\ (goal_call.age = 30 /\ goal_call.activity = "normal") => goal_call.result = 2450
              /\ (goal_call.age = 30 /\ goal_call.activity = "high") => goal_call.result = 2940
              /\ (goal_call.age = 70 /\ goal_call.activity = "low") => goal_call.result = 2094

\* C15: with the other arguments fixed, a weight below the one of the call gives no
\* larger goal; and for a positive weight the goals of low, normal and high
\* activity are in that order.
C15_GoalMonotone ==
    goal_call # None =>
        LET c    == goal_call
            g(a) == calculate_goal_ml(c.weight_kg, c.age, a, c.weather_temp_c)
        IN  /\ \A w1 \in GoalWeights :
                  w1 <= c.weight_kg =>
                      calculate_goal_ml(w1, c.age, c.activity, c.weather_temp_c) <= c.result
            /\ c.weight_kg > 0 =>
                  /\ g("low") <= g("normal") /\ g("normal") <= g("high")
                  /\ c.result = g(c.activity)

\* C15 witness: a call whose goal is above that of the next lighter weight, for a
\* senior on a hot day, where the three activities give three different goals.
C15_Witness ==
    /\ goal_call # None
    /\ goal_call.weight_kg > 1
    /\ goal_call.age >= SeniorAge
    /\ goal_call.weather_temp_c # None
    /\ goal_call.activity = "low"
    /\ calculate_goal_ml(goal_call.weight_kg - 1, goal_call.age, goal_call.activity,
                         goal_call.weather_temp_c) < goal_call.result
    /\ goal_call.result < calculate_goal_ml(goal_call.weight_kg, goal_call.age, "normal",
                                            goal_call.weather_temp_c)

\* C16: get_profile returns nothing exactly when set_profile was never called, and
\* otherwise the fields of the latest set_profile call; a step that changes the
\* profile table appends rows, at most one for each open_profile_dialog call that
\* returns in it, and leaves the earlier rows as they were.
C16_LatestProfileWins ==
    /\ [](/\ get_profile(profile) = None <=> saved = None
          /\ saved # None =>
                <<get_profile(profile).name, get_profile(profile).age,
                  get_profile(profile).weight_kg, get_profile(profile).activity>> = saved)
    /\ [][profile' # profile =>
             /\ Len(profile') > Len(profile)
             /\ Len(profile') - Len(profile) <= Len(dlgs) - Len(dlgs')
             /\ SubSeq(profile', 1, Len(profile)) = profile]_vars

\* C16 witness: the session has saved two profiles with different fields, the
\* first still stored, the second current.
C16_Witness ==
    /\ Len(profile) = boot.profile + 2
    /\ profile[Len(profile) - 1].weight_kg # profile[Len(profile)].weight_kg
    /\ get_profile(profile).id = Len(profile)
    /\ saved[3] = profile[Len(profile)].weight_kg

\* C17: no step of the application removes or changes a stored event, whichever of
\* its operations runs; a step that calls log_water_ml appends exactly one event,
\* under the next id, which is above every id given before.
C17_LogsAppendOnly ==
    [][/\ Len(logs') >= Len(logs)
       /\ SubSeq(logs', 1, Len(logs)) = logs
       /\ (QuickLog(TRUE) \/ PopupLog(TRUE)) => Len(logs') = Len(logs) + 1]_vars

\* C17 witness: a later session has started and stopped the reminders, snoozed, and
\* logged from the popup of the timer that then fired; the events of the earlier
\* sessions are there.
C17_Witness ==
    /\ boot.logs > 0
    /\ Len(logs) = boot.logs + 1
    /\ logs[Len(logs)].amount_ml = PopupLogMl
    /\ \A i \in 1..boot.logs : logs[i].amount_ml = 100 /\ logs[i].logged_at = <<i - 1, 0>>
    /\ phase = "snoozed after stop"

\* C18: when show_reminder runs while the reminders are started (start_reminders
\* was called and stop_reminders was not called since), exactly one timer is pending
\* when it returns, a new one, held in reminder_job; and as long as the reminders
\* are started a timer is pending, so that only stop_reminders ends the chain.
C18_FireRearms ==
    /\ [][(phase = "started" /\ ShowReminderRuns) =>
              /\ Cardinality(timers') = 1
              /\ timers' \cap timers = {}
              /\ \A tm \in timers' : tm.id = reminder_job']_vars
    /\ [](phase = "started" => Cardinality(timers) = 1)

\* C18 witness: the reminders are started, the timer has just fired, its popup is
\* on screen and the timer armed by show_reminder is pending with the interval
\* divided by the cadence factor.
C18_Witness ==
    /\ phase = "started"
    /\ fired
    /\ Len(popups) = 1
    /\ dialog = None
    /\ \E tm \in timers :
          /\ tm.id = reminder_job
          /\ tm.ms = (reminder_interval_min * 60 * 1000 * 100)
                          \div predictor_adjustment(profile, logs, now, tz)

NormalDelay(interval_min, P, L, t, z) ==
    (interval_min * 60 * 1000 * 100) \div CadenceReference(P, L, t, z)

\* C20: a snooze leaves exactly one pending timer, a new one of minutes * 60 s,
\* whatever the interval and the cadence factor are; and when a snooze timer fires
\* while the reminders are started, the timer armed next has the delay of the
\* interval divided by the cadence factor.
C20_SnoozeOneShot ==
    [][/\ PopupSnooze =>
             /\ Cardinality(timers') = 1
             /\ timers' \cap timers = {}
             /\ \A tm \in timers' : tm.ms = SnoozeMinutes * 60 * 1000 /\ tm.id = reminder_job'
       /\ (/\ phase = "started"
           /\ ShowReminderRuns
           /\ \A tm \in timers : tm.ms = SnoozeMinutes * 60 * 1000) =>
             /\ Cardinality(timers') = 1
             /\ \A tm \in timers' :
                   tm.ms = NormalDelay(reminder_interval_min', profile', logs', now', tz')]_vars

\* C20 witness: started with the interval of 1 minute, under which the delay is
\* 50 s or 60 s by the cadence factor, the pending timer is the 600 s timer that a
\* snooze armed after the popup's 250 ml was logged.
C20_Witness ==
    /\ phase = "started"
    /\ reminder_interval_min = 1
    /\ Len(logs) > boot.logs
    /\ timers = {[id |-> reminder_job, ms |-> SnoozeMinutes * 60 * 1000]}
    /\ NormalDelay(reminder_interval_min, profile, logs, now, tz) \in {50000, 60000}

\* A step that arms the normal timer: an accepted start_reminders, or show_reminder
\* run while the reminders are started.
NormalArming ==
    \/ dialog' = BoxStarted /\ StartReminders
    \/ phase = "started" /\ ShowReminderRuns

\* C21: every normal arming leaves one pending timer whose delay is
\* floor(interval_minutes * 60000 / f) ms, f the cadence factor of the store as it
\* is at the arming; the delay never exceeds the interval and is below it exactly
\* when f > 1.
C21_NormalDelay ==
    [][NormalArming =>
          LET f == predictor_adjustment(profile', logs', now', tz')
          IN  /\ Cardinality(timers') = 1
              /\ \A tm \in timers' :
                    /\ tm.id = reminder_job'
                    /\ tm.ms = NormalDelay(reminder_interval_min', profile', logs', now', tz')
                    /\ tm.ms <= reminder_interval_min' * 60 * 1000
                    /\ tm.ms < reminder_interval_min' * 60 * 1000 <=> f > 100]_vars

\* C21 witness: the first fire came with no event logged, under the factor 1.2; its
\* popup logged 250 ml, which is above the goal of the profile; the timer fired
\* again and the timer it armed has the full interval, the factor being 1.0 now.
C21_Witness ==
    /\ phase = "started"
    /\ get_profile(profile) # None
    /\ profile_goal(get_profile(profile)) > 0
    /\ Len(logs) = 1
    /\ logs[1].amount_ml = PopupLogMl
    /\ Len(popups) = 1
    /\ dialog = None
    /\ predictor_adjustment(profile, <<>>, now, tz) = 120
    /\ predictor_adjustment(profile, logs, now, tz) = 100
    /\ timers = {[id |-> reminder_job, ms |-> reminder_interval_min * 60 * 1000]}

\* C22: start_reminders, stop_reminders, snooze and show_reminder leave profile,
\* logs and badges as they are; a step of the reminder machinery that does write
\* the store is the click on 'Log 250 ml' of a popup: it appends one event of
\* 250 ml, stamped now, and leaves the badges as the evaluator run on the new log
\* leaves them.
C22_SchedulerDoesNotWrite ==
    [][/\ (StartReminders \/ StopReminders \/ PopupSnooze \/ TimerFires(TRUE))
             => UNCHANGED store
       /\ (store' # store) =>
             /\ Len(popups') = Len(popups) - 1
             /\ profile' = profile
             /\ logs' = Append(logs, [logged_at |-> isoformat(now), amount_ml |-> PopupLogMl])
             /\ badges' = check_badges_and_streaks(profile, logs', badges, now, tz)]_vars

\* C22 witness: the reminders were started, a timer fired, and the popup's button
\* wrote the one event there is, 250 ml, for which the evaluator gave 'first-log'.
C22_Witness ==
    /\ fired
    /\ popups = <<>>
    /\ Len(logs) = 1
    /\ logs[1].amount_ml = PopupLogMl
    /\ Count(badges, "first-log") = 1
    /\ timers # {}

\* C23: the message of a fire is chosen from the store as it is at the fire, with
\* the goal of the current profile, or 2000 when there is none: the goal-reached
\* message exactly when today's total is at least the goal, and otherwise the
\* percentage floor(100 * today_total / goal), which is in 0..99.
C23_ReminderMessage ==
    [][ShowReminderRuns =>
          LET msg         == popups'[Len(popups')].msg
              p           == get_profile(profile)
              goal        == IF p # None THEN profile_goal(p) ELSE DefaultGoal
              today_total == get_today_total(logs, now, tz)
          IN  IF today_total >= goal
              THEN msg = <<"You reached your goal! Great job!">>
              ELSE /\ msg = <<"Time to sip", (100 * today_total) \div goal>>
                   /\ msg[2] \in 0..99]_vars

\* C24: no step removes or changes a badge, and the badges change only in a step
\* that logs an event: saving a profile, starting, stopping, snoozing and a timer
\* fire leave them as they are.
C24_BadgesGrowOnlyOnLog ==
    [][/\ Len(badges') >= Len(badges)
       /\ SubSeq(badges', 1, Len(badges)) = badges
       /\ (badges' # badges) => LogWritten
       /\ (profile' # profile \/ sched' # sched \/ Len(popups') > Len(popups))
             => badges' = badges]_vars

\* C24 witness: an event was logged while there was no profile, a profile was
\* saved afterwards, the reminders were started and a timer has fired: there is
\* still no badge.
C24_Witness ==
    /\ Len(logs) = 1
    /\ Len(profile) = 1
    /\ boot.profile = 0
    /\ badges = <<>>
    /\ phase = "started"
    /\ fired
    /\ check_badges_and_streaks(profile, logs, badges, now, tz) # <<>>

\* The text is the decimal numeral of an integer that is at least 1.
IsIntervalText(text) == \E n \in 1..240 : int(text) = <<n>>

\* C25: start_reminders on a text that is not an integer >= 1 raises the error box
\* and leaves reminder_enabled, the interval, reminder_job and the pending timers
\* as they were.
C25_InvalidStartRejected ==
    [][\A text \in IntervalEntries :
          (~IsIntervalText(text) /\ start_reminders(text))
             => (dialog' = BoxInvalidInterval /\ UNCHANGED sched)]_vars

\* C25 witness: the reminders run on an interval of 1 minute with a timer pending,
\* and the start that was refused last has left all of it there.
C25_Witness ==
    /\ dialog = BoxInvalidInterval
    /\ reminder_enabled
    /\ reminder_interval_min = 1
    /\ phase = "started"
    /\ \E tm \in timers : tm.id = reminder_job

\* C26: a step that writes the store, and every step of the quick-log buttons, the
\* custom entry, the popup's log button and the profile dialog, leaves
\* reminder_enabled, the interval, reminder_job and the pending timers with their
\* delays as they were.
C26_WritesLeaveScheduler ==
    [][/\ (store' # store) => UNCHANGED sched
       /\ (QuickLog(TRUE) \/ LogCustom(TRUE) \/ PopupLog(TRUE) \/ OpenProfileDialog(TRUE)
             \/ DialogSave \/ DialogCancel)
             => UNCHANGED sched]_vars

\* C26 witness: the reminders run and the pending timer is the one of a normal
\* arming, with the full interval as its delay; a write since then has raised the
\* cadence factor above 1.0, under which an arming now would give a shorter delay.
C26_Witness ==
    /\ phase = "started"
    /\ Len(logs) + Len(profile) > boot.logs + boot.profile
    /\ timers = {[id |-> reminder_job, ms |-> reminder_interval_min * 60 * 1000]}
    /\ predictor_adjustment(profile, logs, now, tz) > 100
    /\ NormalDelay(reminder_interval_min, profile, logs, now, tz)
          < reminder_interval_min * 60 * 1000

=============================================================================
